---- MODULE Spec2Model ----
(***************************************************************************)
(* Model of checker.py: the paginated Etherscan walk (_paged_get), the     *)
(* order statistics with provenance (stats_with_hash) and the report       *)
(* pipeline (main).                                                        *)
(*                                                                         *)
(* Representation.  Python lists are sequences; Python's 0-based index i   *)
(* is the 1-based index i + 1 here.  Python floats are fixed-point         *)
(* integers counting 1/FP of a whole unit (ETH, USD or EUR); every amount  *)
(* the model produces is an even number of such units, so the mean of two  *)
(* amounts is exact.  Record magnitudes (decimal strings in the source)    *)
(* are counted in quanta of 10^16 wei (native) and 10^4 raw token units.   *)
(***************************************************************************)
EXTENDS Integers, Sequences, FiniteSets, TLC

VARIABLES
    \* ---- _paged_get ----
    wpc,            \* position of the walk inside _paged_get
    page,           \* local `page`
    items,          \* local `items`
    data,           \* local `data`: the last response
    requested,      \* the page numbers sent to the data source, in order
    responses,      \* the responses received, in order
    wret,           \* what the call produced: the returned list or the exception
    \* ---- stats_with_hash called on its own ----
    spc, values, hashes, st,
    \* ---- main ----
    pc, args, normal, internal, tokens,
    eth_vals_eth, eth_vals_eur, eth_hashes,
    token_eur_vals, token_hashes,
    unified_vals, unified_hashes,
    output,         \* what has been printed so far, one entry per section
    err             \* the exception that ended main, if any

walk_vars  == <<wpc, page, items, data, requested, responses, wret>>
stats_vars == <<spc, values, hashes, st>>
main_vars  == <<pc, args, normal, internal, tokens, eth_vals_eth, eth_vals_eur,
                eth_hashes, token_eur_vals, token_hashes, unified_vals,
                unified_hashes, output, err>>
vars == <<walk_vars, stats_vars, main_vars>>

----------------------------------------------------------------------------
(* Bounds *)

MaxLen == 3         \* longest value series handed to stats_with_hash on its own
MaxVal == 2         \* values of such a series are 0, 2, .. 2 * MaxVal
MaxPage == 3        \* the data source holds fewer than MaxPage full pages
MaxNative == 1      \* most records fetch_normal_txs returns to main
MaxInternal == 1    \* most records fetch_internal_txs returns to main
MaxTokens == 2      \* most records fetch_token_txs returns to main

RECURSIVE SeqsUpTo(_, _)
SeqsUpTo(S, n) ==
    IF n = 0 THEN {<<>>}
    ELSE LET shorter == SeqsUpTo(S, n - 1)
         IN  shorter \cup {Append(s, x) : s \in {t \in shorter : Len(t) = n - 1}, x \in S}

Range(s) == {s[i] : i \in DOMAIN s}

----------------------------------------------------------------------------
(* Program constants *)

PAGE_SIZE == 2
FIXED_ETH_EUR_RATE == 3659
FIXED_USD_EUR_RATE_PCT == 85        \* 0.85, in hundredths
HIGHER_THAN_AMOUNT == 6000

FP == 20000                         \* fixed-point units per whole unit
NativeQuantumExp == 16              \* a native magnitude counts 10^16 wei
TokenQuantumExp == 4                \* a token magnitude counts 10^4 raw units

RECURSIVE Pow10(_)
Pow10(n) == IF n = 0 THEN 1 ELSE 10 * Pow10(n - 1)

None == [kind |-> "None"]

----------------------------------------------------------------------------
(* Order statistics: _median_with_indices, stats_with_hash *)

\* The mutant: an unstable sort that puts equal values in reverse order.
RECURSIVE InsertIdxUnstable(_, _, _)
InsertIdxUnstable(ord, i, vals) ==
    IF ord = <<>> THEN <<i>>
    ELSE IF vals[ord[Len(ord)]] < vals[i] THEN Append(ord, i)
    ELSE Append(InsertIdxUnstable(SubSeq(ord, 1, Len(ord) - 1), i, vals), ord[Len(ord)])

\* sorted(range(n), key=lambda i: values[i]) is a stable sort: index i goes
\* behind every index already placed whose value is not larger.
RECURSIVE InsertIdx(_, _, _)
InsertIdx(ord, i, vals) ==
    IF ord = <<>> THEN <<i>>
    ELSE IF vals[ord[Len(ord)]] <= vals[i] THEN Append(ord, i)
    ELSE Append(InsertIdx(SubSeq(ord, 1, Len(ord) - 1), i, vals), ord[Len(ord)])

RECURSIVE SortedIdxUpTo(_, _)
SortedIdxUpTo(vals, k) ==
    IF k = 0 THEN <<>> ELSE InsertIdx(SortedIdxUpTo(vals, k - 1), k, vals)

sorted_idx(vals) == SortedIdxUpTo(vals, Len(vals))

\* min(range(n), key=...): the first index holding the smallest value.
RECURSIVE MinIdxUpTo(_, _)
MinIdxUpTo(vals, k) ==
    IF k = 1 THEN 1
    ELSE LET best == MinIdxUpTo(vals, k - 1)
         IN  IF vals[k] < vals[best] THEN k ELSE best

\* The mutant: the scan keeps the last index holding the largest value.
RECURSIVE MaxIdxLast(_, _)
MaxIdxLast(vals, k) ==
    IF k = 1 THEN 1
    ELSE LET best == MaxIdxLast(vals, k - 1)
         IN  IF vals[k] >= vals[best] THEN k ELSE best

\* max(range(n), key=...): the first index holding the largest value.
RECURSIVE MaxIdxUpTo(_, _)
MaxIdxUpTo(vals, k) ==
    IF k = 1 THEN 1
    ELSE LET best == MaxIdxUpTo(vals, k - 1)
         IN  IF vals[k] > vals[best] THEN k ELSE best

\* The mutant: the sum of the two middle values is not halved.
MeanNotHalved(a, b) == a + b

\* (values[lo] + values[hi]) / 2.0
Mean(a, b) == (a + b) \div 2

\* _median_with_indices: (median_value, indices_used); an even count uses two
_median_with_indices(vals) ==
    LET n == Len(vals)
        ord_idx == sorted_idx(vals)
    IN  IF n % 2 = 1
        THEN LET mid == ord_idx[n \div 2 + 1]
             IN  [value |-> vals[mid], indices |-> <<mid>>]
        ELSE LET lo == ord_idx[n \div 2]
                 hi == ord_idx[n \div 2 + 1]
             IN  [value |-> Mean(vals[lo], vals[hi]), indices |-> <<lo, hi>>]

\* hashes[i] raises IndexError when i is past the end of hashes.
stats_with_hash(vals, hs) ==
    IF vals = <<>> THEN None
    ELSE LET n == Len(vals)
             min_idx == MinIdxUpTo(vals, n)
             max_idx == MaxIdxUpTo(vals, n)
             med == _median_with_indices(vals)
             used == {min_idx, max_idx} \cup Range(med.indices)
         IN  IF \E i \in used : i > Len(hs)
             THEN [kind |-> "IndexError"]
             ELSE [kind |-> "stats",
                   count |-> n,
                   min |-> [value |-> vals[min_idx], hash |-> hs[min_idx]],
                   median |-> [value |-> med.value,
                               hashes |-> [j \in DOMAIN med.indices |-> hs[med.indices[j]]]],
                   max |-> [value |-> vals[max_idx], hash |-> hs[max_idx]]]

----------------------------------------------------------------------------
(* stats_with_hash called on its own, on every bounded pair of series *)

StatValues == {2 * k : k \in 0..MaxVal}
StatHashes == {"a", "b", "c"}

WalkIdle ==
    /\ wpc = "idle" /\ page = 0 /\ items = <<>> /\ data = None
    /\ requested = <<>> /\ responses = <<>> /\ wret = None

StatsIdle == spc = "idle" /\ values = <<>> /\ hashes = <<>> /\ st = None

MainIdle ==
    /\ pc = "idle"
    /\ args = [exclude_zero |-> FALSE, include_internal |-> FALSE,
               include_tokens |-> FALSE, unified |-> FALSE]
    /\ normal = <<>> /\ internal = <<>> /\ tokens = <<>>
    /\ eth_vals_eth = <<>> /\ eth_vals_eur = <<>> /\ eth_hashes = <<>>
    /\ token_eur_vals = <<>> /\ token_hashes = <<>>
    /\ unified_vals = <<>> /\ unified_hashes = <<>>
    /\ output = <<>> /\ err = None

StatsInit ==
    /\ spc = "call"
    /\ values \in SeqsUpTo(StatValues, MaxLen)
    /\ hashes \in SeqsUpTo(StatHashes, MaxLen + 1)
    /\ st = None
    /\ WalkIdle /\ MainIdle

CallStats ==
    /\ spc = "call"
    /\ st' = stats_with_hash(values, hashes)
    /\ spc' = "returned"
    /\ UNCHANGED <<values, hashes, walk_vars, main_vars>>

StatsNext == CallStats

StatsSpec == StatsInit /\ [][StatsNext]_vars

----------------------------------------------------------------------------
(* The paginated walk: _paged_get *)

NO_TX_MESSAGE == "No transactions found"

Txs == {"t1", "t2"}                 \* the records a page can hold (opaque here)
Messages == {"OK", "NOTOK", NO_TX_MESSAGE}

\* The result lists the data source can send for page p: at most PAGE_SIZE
\* records, and a full page only while it holds more (p < MaxPage).
Chunks(p) ==
    {c \in SeqsUpTo(Txs, PAGE_SIZE) : Len(c) = PAGE_SIZE => p < MaxPage}

\* What requests.get can bring back for page p: a transport failure, or a
\* body {status, message, result}.  The "no records" body has an empty result.
Responses(p) ==
    {[http_ok |-> FALSE, status |-> "", message |-> "", result |-> <<>>]}
    \cup {r \in [http_ok : {TRUE}, status : {"0", "1"}, message : Messages,
                 result : Chunks(p)] :
            (r.status = "0" /\ r.message = NO_TX_MESSAGE) => r.result = <<>>}

\* The mutant: every status "0" is an error, the sentinel included.
IsSourceErrorNoSentinel(d) == d.status = "0"

\* status == "0" and message != "No transactions found"
IsSourceError(d) == d.status = "0" /\ d.message # NO_TX_MESSAGE

\* The mutant: a full page ends the walk too.
IsShortOrFull(chunk) == Len(chunk) <= PAGE_SIZE

\* len(chunk) < PAGE_SIZE
IsShort(chunk) == Len(chunk) < PAGE_SIZE

\* The mutant: the page replaces what was accumulated.
ExtendReplaces(acc, chunk) == chunk

\* items.extend(chunk)
Extend(acc, chunk) == acc \o chunk

ListOf(s) == [kind |-> "list", items |-> s]

WalkInit ==
    /\ wpc = "get" /\ page = 1 /\ items = <<>> /\ data = None
    /\ requested = <<>> /\ responses = <<>> /\ wret = None
    /\ StatsIdle /\ MainIdle

\* params.update(page); r = requests.get(...); r.raise_for_status(); data = r.json()
Get ==
    /\ wpc = "get"
    /\ requested' = Append(requested, page)
    /\ \E r \in Responses(page) :
         /\ responses' = Append(responses, r)
         /\ IF r.http_ok
            THEN /\ data' = r
                 /\ wpc' = "check_status"
                 /\ wret' = wret
            ELSE /\ data' = data
                 /\ wpc' = "raised"
                 /\ wret' = [kind |-> "HTTPError"]
    /\ UNCHANGED <<page, items, stats_vars, main_vars>>

\* if status == "0" and message != "No transactions found": raise RuntimeError
CheckStatus ==
    /\ wpc = "check_status"
    /\ IF IsSourceError(data)
       THEN /\ wpc' = "raised"
            /\ wret' = [kind |-> "RuntimeError", message |-> data.message]
       ELSE /\ wpc' = "check_chunk"
            /\ wret' = wret
    /\ UNCHANGED <<page, items, data, requested, responses, stats_vars, main_vars>>

\* chunk = data.get("result", []); if not chunk: break
CheckChunk ==
    /\ wpc = "check_chunk"
    /\ wpc' = IF data.result = <<>> THEN "return" ELSE "extend"
    /\ UNCHANGED <<page, items, data, requested, responses, wret, stats_vars, main_vars>>

\* items.extend(chunk); if len(chunk) < PAGE_SIZE: break
ExtendItems ==
    /\ wpc = "extend"
    /\ items' = Extend(items, data.result)
    /\ wpc' = IF IsShort(data.result) THEN "return" ELSE "next_page"
    /\ UNCHANGED <<page, data, requested, responses, wret, stats_vars, main_vars>>

\* page += 1; time.sleep(0.21)
NextPage ==
    /\ wpc = "next_page"
    /\ page' = page + 1
    /\ wpc' = "get"
    /\ UNCHANGED <<items, data, requested, responses, wret, stats_vars, main_vars>>

\* return items
Return ==
    /\ wpc = "return"
    /\ wret' = ListOf(items)
    /\ wpc' = "done"
    /\ UNCHANGED <<page, items, data, requested, responses, stats_vars, main_vars>>

WalkNext == Get \/ CheckStatus \/ CheckChunk \/ ExtendItems \/ NextPage \/ Return

WalkSpec == WalkInit /\ [][WalkNext]_vars

\* The walk is one sequential thread: a step that can be taken is taken.
FairWalkSpec == WalkSpec /\ WF_vars(WalkNext)

----------------------------------------------------------------------------
(* Records, conversions and the allow-list *)

USDC == "0xa0b86991c6218b36c1d19d4a2e9eb0ce3606eb48"
USDT == "0xdac17f958d2ee523a2206206994597c13d831ec7"
\* USDC's address as a checksummed (mixed-case) string, and a token that is
\* not on the allow-list, in lower and in upper case.
USDC_CHECKSUMMED == "0xA0b86991c6218b36c1d19D4a2e9Eb0cE3606eB48"
DAI == "0x6b175474e89094c44da98b954eedeac495271d0f"
DAI_UPPER == "0X6B175474E89094C44DA98B954EEDEAC495271D0F"

\* STABLE_TOKENS: lower-cased contract -> decimals
STABLE_TOKENS == (USDC :> 6) @@ (USDT :> 6)

\* str.lower(), on the addresses the model's records carry
lower(str) ==
    CASE str = USDC_CHECKSUMMED -> USDC
      [] str = DAI_UPPER -> DAI
      [] OTHER -> str

\* int(wei_str) / 10**18, the magnitude counted in quanta of 10^16 wei
wei_to_eth(wei) == (wei * FP) \div Pow10(18 - NativeQuantumExp)

\* int(raw) / (10 ** decimals), the magnitude counted in quanta of 10^4
to_float_amount(raw, decimals) == (raw * FP) \div Pow10(decimals - TokenQuantumExp)

\* value_eth * FIXED_ETH_EUR_RATE
eth_to_eur(value_eth) == value_eth * FIXED_ETH_EUR_RATE

\* amount_usd * FIXED_USD_EUR_RATE
usd_to_eur(amount_usd) == (amount_usd * FIXED_USD_EUR_RATE_PCT) \div 100

Amounts == {0, 1}
NativeRecords == [value : Amounts, hash : {"n1", "n2"}]
InternalRecords == [value : Amounts, hash : {"i1"}]
TokenRecords ==
    [value : Amounts, hash : {"t1", "t2"},
     contractAddress : {USDC_CHECKSUMMED, DAI_UPPER}]

\* What a fetch_*_txs call can end with besides a list (_paged_get's raises).
FetchErrors == {"RuntimeError", "HTTPError"}

----------------------------------------------------------------------------
(* main *)

NoSeries == [vals_eth |-> <<>>, vals_eur |-> <<>>, hashes |-> <<>>]

\* for tx in txs: ... the loop over the first k records, appending to acc
RECURSIVE EthLoop(_, _, _, _)
EthLoop(txs, k, exclude_zero, acc) ==
    IF k = 0 THEN acc
    ELSE LET sofar == EthLoop(txs, k - 1, exclude_zero, acc)
             tx == txs[k]
             v_eth == wei_to_eth(tx.value)
         IN  IF exclude_zero /\ v_eth = 0 THEN sofar
             ELSE [vals_eth |-> Append(sofar.vals_eth, v_eth),
                   vals_eur |-> Append(sofar.vals_eur, eth_to_eur(v_eth)),
                   hashes |-> Append(sofar.hashes, tx.hash)]

\* The mutant: zero-magnitude token records are kept.
SkipTokenZeroKept(t) == lower(t.contractAddress) \notin DOMAIN STABLE_TOKENS

\* raw == 0, or contract not in STABLE_TOKENS: continue
SkipToken(t) ==
    \/ t.value = 0
    \/ lower(t.contractAddress) \notin DOMAIN STABLE_TOKENS

\* for t in tokens: ... the loop over the first k records
RECURSIVE TokenLoop(_, _)
TokenLoop(txs, k) ==
    IF k = 0 THEN [vals_eur |-> <<>>, hashes |-> <<>>]
    ELSE LET sofar == TokenLoop(txs, k - 1)
             t == txs[k]
         IN  IF SkipToken(t) THEN sofar
             ELSE LET decimals == STABLE_TOKENS[lower(t.contractAddress)]
                      amount_usd == to_float_amount(t.value, decimals)
                      eur_val == usd_to_eur(amount_usd)
                  IN  [vals_eur |-> Append(sofar.vals_eur, eur_val),
                       hashes |-> Append(sofar.hashes, t.hash)]

ETH_TITLE == "ETH Transaction Amounts (ETH)"
ETH_EUR_TITLE == "ETH Transaction Amounts (EUR) + hashes"
TOKEN_TITLE == "Stablecoin Transfers (EUR, USDC/USDT) + hashes"
UNIFIED_TITLE == "Unified Value Moved (EUR) - ETH + Stablecoins + hashes"

NoValues(title) == [title |-> title, stats |-> None]

\* print_stats_with_hash: the section it prints
print_stats_with_hash(title, vals, hs) ==
    IF vals = <<>> THEN NoValues(title)
    ELSE [title |-> title, stats |-> stats_with_hash(vals, hs)]

\* print_stats_simple: the section it prints
print_stats_simple(title, vals) ==
    IF vals = <<>> THEN NoValues(title)
    ELSE [title |-> title,
          stats |-> [kind |-> "simple",
                     count |-> Len(vals),
                     min |-> vals[MinIdxUpTo(vals, Len(vals))],
                     median |-> _median_with_indices(vals).value,
                     max |-> vals[MaxIdxUpTo(vals, Len(vals))]]]

\* print_transactions_higher_than: the lines it prints, or its ValueError
print_transactions_higher_than(txs, amount, hs) ==
    IF Len(txs) # Len(hs) THEN [kind |-> "ValueError"]
    ELSE LET over == {i \in DOMAIN txs : txs[i] > amount}
         IN  [kind |-> "higher_than",
              lines |-> [i \in over |-> <<txs[i], hs[i]>>],
              total |-> Cardinality(over),
              of |-> Len(txs)]

\* The mutant: the token series comes first.
UnifiedTokensFirst(eth, tok) == tok \o eth

\* if eth: unified += eth; if tok: unified += tok
UnifiedSeries(eth, tok) ==
    LET first == IF eth # <<>> THEN eth ELSE <<>>
    IN  IF tok # <<>> THEN first \o tok ELSE first

\* main once the arguments are parsed and the API key is found: any flags
MainInit ==
    /\ pc = "fetch_normal"
    /\ args \in [exclude_zero : BOOLEAN, include_internal : BOOLEAN,
                 include_tokens : BOOLEAN, unified : BOOLEAN]
    /\ normal = <<>> /\ internal = <<>> /\ tokens = <<>>
    /\ eth_vals_eth = <<>> /\ eth_vals_eur = <<>> /\ eth_hashes = <<>>
    /\ token_eur_vals = <<>> /\ token_hashes = <<>>
    /\ unified_vals = <<>> /\ unified_hashes = <<>>
    /\ output = <<>> /\ err = None
    /\ WalkIdle /\ StatsIdle

\* An exception leaves main: nothing after it runs.
Abort(e) ==
    /\ err' = [kind |-> e]
    /\ pc' = "aborted"

\* normal = fetch_normal_txs(...): the list _paged_get returns, or its raise
FetchNormal ==
    /\ pc = "fetch_normal"
    /\ \/ \E s \in SeqsUpTo(NativeRecords, MaxNative) :
            /\ normal' = s
            /\ pc' = "fetch_internal"
            /\ err' = err
       \/ \E e \in FetchErrors :
            /\ Abort(e)
            /\ normal' = normal
    /\ UNCHANGED <<args, internal, tokens, eth_vals_eth, eth_vals_eur, eth_hashes,
                   token_eur_vals, token_hashes, unified_vals, unified_hashes,
                   output, walk_vars, stats_vars>>

\* internal = fetch_internal_txs(...) if args.include_internal else []
FetchInternal ==
    /\ pc = "fetch_internal"
    /\ IF args.include_internal
       THEN \/ \E s \in SeqsUpTo(InternalRecords, MaxInternal) :
                 /\ internal' = s
                 /\ pc' = "eth"
                 /\ err' = err
            \/ \E e \in FetchErrors :
                 /\ Abort(e)
                 /\ internal' = internal
       ELSE /\ internal' = <<>>
            /\ pc' = "eth"
            /\ err' = err
    /\ UNCHANGED <<args, normal, tokens, eth_vals_eth, eth_vals_eur, eth_hashes,
                   token_eur_vals, token_hashes, unified_vals, unified_hashes,
                   output, walk_vars, stats_vars>>

\* The two loops over normal and internal, then the ETH sections are printed.
EthStats ==
    /\ pc = "eth"
    /\ LET n == EthLoop(normal, Len(normal), args.exclude_zero, NoSeries)
           e == IF args.include_internal
                THEN EthLoop(internal, Len(internal), args.exclude_zero, n)
                ELSE n
       IN  /\ eth_vals_eth' = e.vals_eth
           /\ eth_vals_eur' = e.vals_eur
           /\ eth_hashes' = e.hashes
           /\ output' = output \o
                <<print_stats_simple(ETH_TITLE, e.vals_eth),
                  print_stats_with_hash(ETH_EUR_TITLE, e.vals_eur, e.hashes)>>
    /\ pc' = "tokens"
    /\ UNCHANGED <<args, normal, internal, tokens, token_eur_vals, token_hashes,
                   unified_vals, unified_hashes, err, walk_vars, stats_vars>>

\* if args.include_tokens: fetch, normalize, print the stablecoin sections
TokenStats ==
    /\ pc = "tokens"
    /\ IF args.include_tokens
       THEN \/ \E s \in SeqsUpTo(TokenRecords, MaxTokens) :
                 LET t == TokenLoop(s, Len(s))
                     higher == print_transactions_higher_than(
                                   t.vals_eur, HIGHER_THAN_AMOUNT * FP, t.hashes)
                 IN  /\ tokens' = s
                     /\ token_eur_vals' = t.vals_eur
                     /\ token_hashes' = t.hashes
                     /\ output' = output \o
                          <<print_stats_with_hash(TOKEN_TITLE, t.vals_eur, t.hashes),
                            [title |-> "len", stats |-> [kind |-> "len", count |-> Len(t.vals_eur)]]>>
                          \o (IF higher.kind = "ValueError" THEN <<>>
                              ELSE <<[title |-> "Total", stats |-> higher]>>)
                     /\ IF higher.kind = "ValueError"
                        THEN Abort("ValueError")
                        ELSE pc' = "unified" /\ err' = err
            \/ \E e \in FetchErrors :
                 /\ Abort(e)
                 /\ UNCHANGED <<tokens, token_eur_vals, token_hashes, output>>
       ELSE /\ pc' = "unified"
            /\ UNCHANGED <<tokens, token_eur_vals, token_hashes, output, err>>
    /\ UNCHANGED <<args, normal, internal, eth_vals_eth, eth_vals_eur, eth_hashes,
                   unified_vals, unified_hashes, walk_vars, stats_vars>>

\* if args.unified: concatenate the two series and print the unified section
UnifiedStats ==
    /\ pc = "unified"
    /\ IF args.unified
       THEN LET uv == UnifiedSeries(eth_vals_eur, token_eur_vals)
                uh == UnifiedSeries(eth_hashes, token_hashes)
            IN  /\ unified_vals' = uv
                /\ unified_hashes' = uh
                /\ output' = Append(output, print_stats_with_hash(UNIFIED_TITLE, uv, uh))
       ELSE UNCHANGED <<unified_vals, unified_hashes, output>>
    /\ pc' = "done"
    /\ UNCHANGED <<args, normal, internal, tokens, eth_vals_eth, eth_vals_eur,
                   eth_hashes, token_eur_vals, token_hashes, err, walk_vars, stats_vars>>

Next == FetchNormal \/ FetchInternal \/ EthStats \/ TokenStats \/ UnifiedStats

Spec == MainInit /\ [][Next]_vars


----------------------------------------------------------------------------
(* Claims about the walk *)

RECURSIVE Flatten(_)
Flatten(ss) == IF ss = <<>> THEN <<>> ELSE Head(ss) \o Flatten(Tail(ss))

ResultsOf(rs) == [i \in DOMAIN rs |-> rs[i].result]
LastResponse == responses[Len(responses)]
WalkEnded == wpc \in {"done", "raised"}
ShortPageReceived ==
    responses # <<>> /\ Len(LastResponse.result) < PAGE_SIZE

C1_Order ==
    /\ requested = [i \in 1..Len(requested) |-> i]
    /\ Len(responses) = Len(requested)
    \* every page but the last one requested was a full page
    /\ \A i \in 1..(Len(responses) - 1) : Len(responses[i].result) >= PAGE_SIZE
    \* a walk that returned stopped on a short page
    /\ wpc \in {"return", "done"} => ShortPageReceived

\* C1: _paged_get requests pages 1, 2, 3, ... in increasing order, stops at
\* the first page holding fewer than PAGE_SIZE records (none included), never
\* requests a page after it, and once a short page has arrived the walk ends.
C1_WalkStopsAtFirstShortPage ==
    /\ []C1_Order
    /\ ShortPageReceived ~> WalkEnded

C1_Witness ==
    /\ wpc = "done"
    /\ requested = <<1, 2, 3>>
    /\ Len(responses[1].result) = PAGE_SIZE
    /\ Len(responses[2].result) = PAGE_SIZE
    /\ Len(responses[3].result) = 1

\* C2: when _paged_get returns after requesting pages 1..k, the list it
\* returns is the concatenation of the records of pages 1..k, in page order
\* and in the order within each page, and each page was requested once.
C2_ReturnsConcatenation ==
    wpc = "done" =>
        /\ wret = ListOf(Flatten(ResultsOf(responses)))
        /\ requested = [i \in 1..Len(responses) |-> i]

C2_Witness ==
    /\ wpc = "done"
    /\ Len(responses) = 3
    /\ wret = ListOf(<<"t2", "t1", "t1", "t1", "t2">>)

IsFailure(r) == r.http_ok /\ r.status = "0" /\ r.message # NO_TX_MESSAGE
IsSentinel(r) == r.http_ok /\ r.status = "0" /\ r.message = NO_TX_MESSAGE

----------------------------------------------------------------------------
(* Claims about stats_with_hash *)

Returned == spc = "returned"
SameLength == Len(values) = Len(hashes)

\* C5: stats_with_hash never returns when the value series and the hash
\* series differ in length: it fails with a validation error.
C5_MismatchNeverReturns ==
    (Returned /\ ~SameLength) => st.kind \notin {"stats", "None"}

\* C6: on a non-empty series with as many hashes, the result's count is the
\* series length and min.value <= median.value <= max.value; on the empty
\* series the result is None.
C6_CountAndOrder ==
    (Returned /\ SameLength) =>
        IF values = <<>> THEN st = None
        ELSE /\ st.kind = "stats"
             /\ st.count = Len(values)
             /\ st.min.value <= st.median.value
             /\ st.median.value <= st.max.value

C6_Witness ==
    /\ Returned /\ SameLength /\ Len(values) = 2
    /\ st.kind = "stats" /\ st.count = 2
    /\ st.min.value < st.median.value /\ st.median.value < st.max.value

Smallest(vals) == CHOOSE v \in Range(vals) : \A w \in Range(vals) : v <= w
Largest(vals) == CHOOSE v \in Range(vals) : \A w \in Range(vals) : w <= v
FirstIndexOf(vals, v) ==
    CHOOSE i \in DOMAIN vals : vals[i] = v /\ \A j \in 1..(i - 1) : vals[j] # v

\* C7: min is the smallest value with the hash at the first index holding it,
\* max is the largest value with the hash at the first index holding it.
C7_FirstOccurrence ==
    (Returned /\ SameLength /\ values # <<>>) =>
        /\ st.kind = "stats"
        /\ st.min = [value |-> Smallest(values),
                     hash |-> hashes[FirstIndexOf(values, Smallest(values))]]
        /\ st.max = [value |-> Largest(values),
                     hash |-> hashes[FirstIndexOf(values, Largest(values))]]

\* an all-equal series whose first hash differs from the others
C7_Witness ==
    /\ Returned /\ SameLength /\ Len(values) = 3
    /\ values[1] = values[2] /\ values[2] = values[3]
    /\ hashes[1] # hashes[2] /\ hashes[1] # hashes[3]
    /\ st.min.hash = hashes[1] /\ st.max.hash = hashes[1]

\* The place of index i in the series stably sorted by value.
StableRank(vals, i) ==
    1 + Cardinality({j \in DOMAIN vals :
                        vals[j] < vals[i] \/ (vals[j] = vals[i] /\ j < i)})
\* S[k]: the index of the k-th element of the stably sorted series.
StableSorted(vals) ==
    [k \in DOMAIN vals |-> CHOOSE i \in DOMAIN vals : StableRank(vals, i) = k]

C8_Median ==
    (Returned /\ SameLength /\ values # <<>>) =>
        LET n == Len(values)
            S == StableSorted(values)
        IN  /\ st.kind = "stats"
            /\ IF n % 2 = 1
               THEN /\ st.median.value = values[S[n \div 2 + 1]]
                    /\ st.median.hashes = <<hashes[S[n \div 2 + 1]]>>
               ELSE /\ 2 * st.median.value = values[S[n \div 2]] + values[S[n \div 2 + 1]]
                    /\ st.median.hashes = <<hashes[S[n \div 2]], hashes[S[n \div 2 + 1]]>>

\* C8: with S the series stably sorted by value, an odd count gives the value
\* and the one hash of S's middle element; an even count gives the mean of the
\* two middle elements and their two hashes, lower sorted index first.  The
\* call leaves the series as they were.
C8_StableMedian ==
    /\ []C8_Median
    /\ [][values' = values /\ hashes' = hashes]_vars

\* two equal values with different hashes, and the larger value in front
C8_Witness ==
    /\ Returned /\ SameLength /\ Len(values) = 3
    /\ values[1] > values[2] /\ values[2] = values[3]
    /\ hashes[2] # hashes[3]
    /\ st.median.hashes = <<hashes[3]>>

----------------------------------------------------------------------------
(* Claims about main *)

\* C4: no partial report: when a fetch or a normalization fails, main has
\* emitted no statistics for any category.
C4_NoPartialReport ==
    err # None => \A i \in DOMAIN output : output[i].stats = None

HashesIn(stats) == {stats.min.hash, stats.max.hash} \cup Range(stats.median.hashes)
PairsOf(vals, hs) == {<<vals[i], hs[i]>> : i \in DOMAIN vals}
SectionStats(title) ==
    {output[i].stats : i \in {j \in DOMAIN output : output[j].title = title}}
NativeEur(r) == (r.value * FIXED_ETH_EUR_RATE * FP) \div Pow10(18 - NativeQuantumExp)
TokenEur(r) == (r.value * FIXED_USD_EUR_RATE_PCT * FP) \div (100 * Pow10(6 - TokenQuantumExp))

C9_Categories ==
    /\ \A x \in SectionStats(ETH_EUR_TITLE) :
         x # None =>
            /\ HashesIn(x) \subseteq {r.hash : r \in Range(normal) \cup Range(internal)}
            /\ {<<x.min.value, x.min.hash>>, <<x.max.value, x.max.hash>>}
                 \subseteq {<<NativeEur(r), r.hash>> : r \in Range(normal) \cup Range(internal)}
    /\ \A x \in SectionStats(TOKEN_TITLE) :
         x # None =>
            /\ HashesIn(x) \subseteq {r.hash : r \in Range(tokens)}
            /\ {<<x.min.value, x.min.hash>>, <<x.max.value, x.max.hash>>}
                 \subseteq {<<TokenEur(r), r.hash>> : r \in Range(tokens)}

Kept(t) == t.value # 0 /\ lower(t.contractAddress) \in {USDC, USDT}
KeptTokens == SelectSeq(tokens, Kept)

\* C10: token normalization never raises; it drops a record exactly when its
\* magnitude is zero or its lower-cased contract is not a key of STABLE_TOKENS,
\* and every other record gives one (EUR value, hash) entry, in source order.
C10_TokenNormalization ==
    /\ Len(token_eur_vals) = Len(token_hashes)
    /\ err # None => err.kind \in FetchErrors
    /\ pc \in {"unified", "done"} =>
         /\ token_hashes = [i \in DOMAIN KeptTokens |-> KeptTokens[i].hash]
         /\ token_eur_vals = [i \in DOMAIN KeptTokens |-> TokenEur(KeptTokens[i])]

\* a zero record and a record off the allow-list around a checksummed USDC one
C10_Witness ==
    /\ pc = "done" /\ args.include_tokens /\ Len(tokens) = 2
    /\ tokens[1].contractAddress = DAI_UPPER /\ tokens[1].value # 0
    /\ tokens[2].contractAddress = USDC_CHECKSUMMED /\ tokens[2].value # 0
    /\ token_hashes = <<tokens[2].hash>>

====
